---------------------------- MODULE Spec2Model ----------------------------
(***************************************************************************)
(* Wordflow: the word engine (dictionary loader/filter, anagram cluster    *)
(* index, level generator) and the game session of the App component that  *)
(* drives it, as a state machine.  Words and texts are sequences of        *)
(* one-character strings, so that trimming, case folding, sorting and      *)
(* permuting are computed character by character.                          *)
(***************************************************************************)
EXTENDS Integers, Sequences, FiniteSets, TLC

VARIABLES
  dictionary,     \* WordEngine.dictionary: string[]
  dictionarySet,  \* WordEngine.dictionarySet: Set<string>
  clusters,       \* WordEngine.clusters: Map<string,string[]>, in insertion order
  inits,          \* number of init() calls that have completed
  result,         \* what the last call returned to its caller
  app,            \* the App component's state cells (useState)
  timers,         \* give-up timeouts set and not yet fired
  pc,             \* where the App's initGame() stands
  loads           \* number of loadNewLevel() calls so far

vars == <<dictionary, dictionarySet, clusters, inits, result,
          app, timers, pc, loads>>

\* the App's side of the state, which no engine method touches
session == <<app, timers, pc, loads>>

(***************************************************************************)
(* Bounds of the model.                                                    *)
(***************************************************************************)
\* init() calls on the one engine instance
MaxInits == 2
\* longest letter string over SubsetAlphabet handed to isSubset on its own
MaxSigLen == 3
\* loadNewLevel() calls in one session
MaxLoads == 3
\* hint letters revealed on one level
MaxHints == 1
\* give-up timeouts pending at the same time
MaxTimers == 2
\* the score a session can reach
MaxScore == 120

(***************************************************************************)
(* Characters.  Code units order the default Array.prototype.sort.         *)
(***************************************************************************)
LOWER == <<"a","b","c","d","e","f","g","h","i","j","k","l","m",
           "n","o","p","q","r","s","t","u","v","w","x","y","z">>

UPPER == <<"A","B","C","D","E","F","G","H","I","J","K","L","M",
           "N","O","P","Q","R","S","T","U","V","W","X","Y","Z">>

Range(s) == {s[i] : i \in DOMAIN s}

LowerSet == Range(LOWER)

UpperSet == Range(UPPER)

WHITESPACE == {" ", "\t", "\r", "\n"}

PUNCTUATION == {"'", "2", "4"}

IndexIn(c, alphabet) == CHOOSE i \in DOMAIN alphabet : alphabet[i] = c

\* UTF-16 code unit of each character the model uses
CharCode ==
  [c \in LowerSet \cup UpperSet \cup WHITESPACE \cup PUNCTUATION |->
     IF c \in LowerSet THEN 96 + IndexIn(c, LOWER)
     ELSE IF c \in UpperSet THEN 64 + IndexIn(c, UPPER)
     ELSE IF c = " " THEN 32
     ELSE IF c = "\t" THEN 9
     ELSE IF c = "\n" THEN 10
     ELSE IF c = "\r" THEN 13
     ELSE IF c = "'" THEN 39
     ELSE IF c = "2" THEN 50
     ELSE 52]

\* String.prototype.toLowerCase / toUpperCase, one character
LowerChar(c) == IF c \in UpperSet THEN LOWER[IndexIn(c, UPPER)] ELSE c

UpperChar(c) == IF c \in LowerSet THEN UPPER[IndexIn(c, LOWER)] ELSE c

toLowerCase(s) == [i \in DOMAIN s |-> LowerChar(s[i])]

toUpperCase(s) == [i \in DOMAIN s |-> UpperChar(s[i])]

RECURSIVE TrimStart(_)
TrimStart(s) ==
  IF s # <<>> /\ Head(s) \in WHITESPACE THEN TrimStart(Tail(s)) ELSE s

RECURSIVE TrimEnd(_)
TrimEnd(s) ==
  IF s # <<>> /\ s[Len(s)] \in WHITESPACE
    THEN TrimEnd(SubSeq(s, 1, Len(s) - 1))
    ELSE s

\* String.prototype.trim
trim(s) == TrimEnd(TrimStart(s))

Indices(s) == [i \in DOMAIN s |-> i]

\* text.split('\n'): the pieces between consecutive newlines; "" splits into [""]
split(text) ==
  LET newlines == SelectSeq(Indices(text), LAMBDA i : text[i] = "\n")
      cuts == <<0>> \o newlines \o <<Len(text) + 1>>
  IN  [k \in 1 .. Len(newlines) + 1 |->
         SubSeq(text, cuts[k] + 1, cuts[k + 1] - 1)]

\* Array.prototype.sort() on characters: ascending code units, stable
RECURSIVE InsertChar(_, _)
InsertChar(c, sorted) ==
  IF sorted = <<>> THEN <<c>>
  ELSE IF CharCode[Head(sorted)] <= CharCode[c]
    THEN <<Head(sorted)>> \o InsertChar(c, Tail(sorted))
    ELSE <<c>> \o sorted

RECURSIVE SortChars(_)
SortChars(s) ==
  IF s = <<>> THEN <<>>
  ELSE InsertChar(s[Len(s)], SortChars(SubSeq(s, 1, Len(s) - 1)))

\* word.split('').sort().join(''): the letter signature
Signature(word) == SortChars(word)

(***************************************************************************)
(* The engine's data tables.                                               *)
(***************************************************************************)
PRIORITY_WORDS ==
  <<
    <<"n","i","g","h">>, <<"f","a","i","n">>, <<"y","o","r","e">>, <<"l","o","r","e">>,
    <<"b","a","r","d">>, <<"s","a","g","e">>, <<"v","a","l","e">>, <<"m","o","o","r">>,
    <<"v","i","a","l">>, <<"h","e","l","m">>, <<"r","u","n","e">>, <<"m","e","a","d">>,
    <<"t","h","o","u">>, <<"t","h","e","e">>, <<"q","u","o","t","h">>,
    <<"w","r","o","u","g","h","t">>, <<"b","l","i","t","h","e">>, <<"s","t","a","r","k">>,
    <<"g","r","i","m">>, <<"v","a","n","e">>, <<"r","e","e","d">>
  >>

BLACKLIST ==
  {
    <<"f","r","a","n">>, <<"b","r","a","d">>, <<"g","r","e","g">>, <<"e","b","a","y">>,
    <<"s","o","n","y">>, <<"d","e","l","l">>, <<"n","i","k","e">>, <<"l","e","v","i">>,
    <<"v","i","s","a">>, <<"f","o","r","d">>, <<"f","i","a","t">>, <<"a","s","d","a">>,
    <<"a","u","d","i">>, <<"h","u","g","o">>, <<"m","a","r","c">>, <<"j","e","a","n">>,
    <<"p","a","u","l">>, <<"i","v","a","n">>, <<"k","a","r","l">>, <<"e","r","i","k">>,
    <<"h","t","t","p">>, <<"h","t","m","l">>, <<"w","w","w">>, <<"c","o","m">>, <<"o","r","g">>,
    <<"b","l","o","g">>, <<"s","i","t","e">>, <<"u","s","e","r">>, <<"j","a","v","a">>,
    <<"l","i","n","u","x">>, <<"u","n","i","x">>, <<"x","m","l">>, <<"j","s","o","n">>,
    <<"w","i","f","i">>, <<"a","p","p","s">>, <<"t","e","c","h">>, <<"d","a","t","a">>,
    <<"f","i","l","e">>, <<"l","i","n","k">>, <<"c","o","d","e">>, <<"i","p","a","d">>,
    <<"i","p","o","d">>, <<"x","b","o","x">>, <<"p","s","n">>, <<"b","i","o","s">>,
    <<"p","i","n","g">>, <<"p","o","n","g">>, <<"n","u","l","l">>, <<"v","o","i","d">>,
    <<"j","u","l","y">>, <<"j","u","n","e">>, <<"s","e","p","t">>, <<"o","c","t","o">>,
    <<"n","o","v">>, <<"d","e","c">>, <<"m","o","n">>, <<"t","u","e">>, <<"w","e","d">>,
    <<"t","h","u">>, <<"f","r","i">>, <<"s","a","t">>, <<"s","u","n">>, <<"v","h","s">>,
    <<"d","v","d">>, <<"u","s","b">>, <<"c","p","u">>, <<"r","a","m">>, <<"p","d","f">>,
    <<"m","p","3">>, <<"u","r","l">>, <<"a","p","i">>, <<"s","k","u">>, <<"v","a","t">>,
    <<"g","m","t">>, <<"p","s","t">>, <<"a","b","c">>, <<"x","y","z">>, <<"q","r","s">>,
    <<"t","u","v">>, <<"p","q","r">>, <<"m","n","o">>
  }

fallback ==
  <<
    <<"r","u","s","t">>, <<"t","r","u","s","t">>, <<"s","t","a","r">>, <<"r","a","t","s">>,
    <<"a","r","t","s">>, <<"s","t","a","i","r">>, <<"t","r","a","i","l">>,
    <<"t","r","a","i","n">>, <<"r","e","a","c","t">>, <<"t","r","a","c","e">>,
    <<"c","a","t","e","r">>, <<"c","r","a","t","e">>, <<"r","a","t","e">>, <<"t","e","a","r">>,
    <<"g","r","e","a","t">>, <<"g","e","a","r">>, <<"r","e","a","d">>, <<"d","e","a","r">>,
    <<"d","a","r","e">>, <<"c","a","r","e">>, <<"r","a","c","e">>, <<"r","i","c","e">>,
    <<"w","o","r","d">>, <<"f","l","o","w">>, <<"w","o","l","f">>, <<"b","l","u","e">>,
    <<"g","l","o","w">>, <<"s","l","o","w">>, <<"f","a","s","t">>, <<"l","a","s","t">>,
    <<"p","a","s","t">>, <<"l","a","k","e">>, <<"p","e","a","k">>, <<"b","e","a","m">>,
    <<"t","e","a","m">>, <<"m","e","a","t">>, <<"t","a","m","e">>, <<"m","a","t","e">>,
    <<"l","a","t","e">>, <<"t","a","l","e">>, <<"n","i","g","h">>, <<"l","o","r","e">>,
    <<"b","a","r","d">>, <<"s","a","g","e">>, <<"v","a","l","e">>, <<"m","o","o","r">>
  >>


\* the default root of generateLevel
WATER == <<"w","a","t","e","r">>

VOWELS == {"a","e","i","o","u","y"}

minLength == 4

maxLength == 7

maxWords == 12

(***************************************************************************)
(* The dictionary source: what fetch() and response.text() can deliver.    *)
(***************************************************************************)
RECURSIVE JoinLines(_)
JoinLines(lines) ==
  IF lines = <<>> THEN <<>>
  ELSE IF Len(lines) = 1 THEN lines[1]
  ELSE lines[1] \o <<"\n">> \o JoinLines(Tail(lines))

\* an empty body
TextEmpty == <<>>

\* casing, padding, carriage returns, duplicates and every kind of reject
TextMessy ==
  JoinLines(<<
    <<" "," ","R","a","i","n"," ">>, <<"S","T","O","N","E","\r">>,
    <<"j","s","o","n">>, <<"F","i","l","e">>, <<"r","h","y","t","h","m">>,
    <<"c","r","w","t","h">>, <<"t","h","e">>, <<"a","l","p","h","a","b","e","t">>,
    <<"d","o","n","'","t">>, <<"b","2","b","4">>, <<"r","a","i","n">>,
    <<"n","i","g","h">>, <<"r","a","i"," ","n">>, <<>>
  >>)

\* the spec's example family around "strain", with two words needing a second s
TextStrain ==
  JoinLines(<<
    <<"s","t","r","a","i","n">>, <<"r","a","i","n">>, <<"r","a","n","t">>,
    <<"s","t","a","i","r">>, <<"t","r","a","i","n">>, <<"s","a","i","n","t">>,
    <<"t","r","a","i","n","s">>, <<"s","t","a","r","s">>,
    <<"s","t","r","a","i","n","s">>
  >>)

\* thirteen words spellable from "notes": one more than the cap
TextNotes ==
  JoinLines(<<
    <<"n","o","t","e","s">>, <<"s","t","o","n","e">>, <<"o","n","s","e","t">>,
    <<"t","o","n","e","s">>, <<"n","o","t","e">>, <<"t","o","n","e">>,
    <<"n","e","s","t">>, <<"n","e","t","s">>, <<"s","e","n","t">>,
    <<"t","e","n","s">>, <<"t","o","e","s">>, <<"n","o","s","e">>,
    <<"o","n","e","s">>
  >>)

Texts == {TextEmpty, TextMessy, TextStrain, TextNotes}

\* fetch rejects; the response is not ok; the response is ok and has a body
Responses ==
  {[status |-> "network_error", text |-> <<>>],
   [status |-> "not_ok", text |-> <<>>]}
  \cup {[status |-> "ok", text |-> t] : t \in Texts}

\* no call has returned since the caller last took a result
NoCall == [op |-> "none", arg |-> 0, ret |-> 0]

(***************************************************************************)
(* init(): filter, merge, index.                                           *)
(***************************************************************************)
isCorrectLength(w) == Len(w) >= minLength /\ Len(w) <= maxLength

\* /^[a-z]+$/
isAlpha(w) == w # <<>> /\ \A i \in DOMAIN w : w[i] \in LowerSet

\* /[aeiouy]/
hasVowel(w) == \E i \in DOMAIN w : w[i] \in VOWELS

\* a filter that forgets the blacklist
isBlacklisted_Never(w) == FALSE

isBlacklisted(w) == w \in BLACKLIST

PassesFilter(w) ==
  isCorrectLength(w) /\ isAlpha(w) /\ hasVowel(w) /\ ~isBlacklisted(w)

Normalized(text) ==
  LET pieces == split(text)
  IN  [i \in DOMAIN pieces |-> toLowerCase(trim(pieces[i]))]

fetchedWords(text) == SelectSeq(Normalized(text), PassesFilter)

\* [...new Set(xs)]: the first occurrence of each element, in order
Dedup(xs) ==
  LET first == SelectSeq(Indices(xs),
                         LAMBDA i : \A j \in 1 .. i - 1 : xs[j] # xs[i])
  IN  [k \in DOMAIN first |-> xs[first[k]]]

combined(text) == Dedup(fetchedWords(text) \o PRIORITY_WORDS)

\* one forEach step: create the signature's list on first use, then push
AddToCluster(cl, word) ==
  LET sorted == Signature(word)
  IN  IF \E i \in DOMAIN cl : cl[i].sortedLetters = sorted
        THEN [i \in DOMAIN cl |->
                IF cl[i].sortedLetters = sorted
                  THEN [cl[i] EXCEPT !.words = Append(@, word)]
                  ELSE cl[i]]
        ELSE Append(cl, [sortedLetters |-> sorted, words |-> <<word>>])

\* words.forEach(word => ...): the steps in order.  The list is folded by
\* halves, and the set binding makes the first half finish before the
\* second starts, which keeps the evaluation shallow.
RECURSIVE IndexWords(_, _)
IndexWords(cl, words) ==
  IF words = <<>> THEN cl
  ELSE IF Len(words) = 1 THEN AddToCluster(cl, words[1])
  ELSE LET half == Len(words) \div 2
       IN  CHOOSE done \in
             {IndexWords(left, SubSeq(words, half + 1, Len(words))) :
                left \in {IndexWords(cl, SubSeq(words, 1, half))}} : TRUE

\* the try block throws before it touches the engine: fetch rejected, or !response.ok
TryThrows(response) == response.status # "ok"

\* the try block, from the filter to the rebuilt clusters
LoadFetched(text) ==
  LET words == combined(text)
  IN  [dictionary |-> words,
       dictionarySet |-> Range(words),
       clusters |-> IndexWords(<<>>, words),
       threw |-> FALSE,
       path |-> "fetch"]

\* a catch block that installs the list and forgets to index it
LoadFallback_NoIndex(cl) ==
  [dictionary |-> fallback,
   dictionarySet |-> Range(fallback),
   clusters |-> cl,
   threw |-> FALSE,
   path |-> "fallback"]

\* the catch block: the fallback list, indexed into the clusters as they are
LoadFallback(cl) ==
  [dictionary |-> fallback,
   dictionarySet |-> Range(fallback),
   clusters |-> IndexWords(cl, fallback),
   threw |-> FALSE,
   path |-> "fallback"]

InitRun(response, cl) ==
  IF TryThrows(response) THEN LoadFallback(cl) ELSE LoadFetched(response.text)

init ==
  /\ result = NoCall
  /\ inits < MaxInits
  /\ \E response \in Responses :
       LET run == InitRun(response, clusters)
       IN  /\ dictionary' = run.dictionary
           /\ dictionarySet' = run.dictionarySet
           /\ clusters' = run.clusters
           /\ result' = [op |-> "init", arg |-> response.status,
                         ret |-> [threw |-> run.threw, path |-> run.path]]
  /\ inits' = inits + 1
  /\ UNCHANGED session

(***************************************************************************)
(* isValidWord and isSubset.                                               *)
(***************************************************************************)
QueryWords ==
  {<<"r","a","i","n">>, <<"R","a","I","n">>, <<"N","I","G","H">>,
   <<"r","u","s","t">>, <<"j","s","o","n">>, <<"x","y","z","z","y">>}

\* a lookup that does not fold the case of the word
isValidWord_CaseSensitive ==
  /\ result = NoCall
  /\ \E word \in QueryWords :
       result' = [op |-> "isValidWord", arg |-> word,
                  ret |-> word \in dictionarySet]
  /\ UNCHANGED <<dictionary, dictionarySet, clusters, inits, session>>

isValidWord ==
  /\ result = NoCall
  /\ \E word \in QueryWords :
       result' = [op |-> "isValidWord", arg |-> word,
                  ret |-> toLowerCase(word) \in dictionarySet]
  /\ UNCHANGED <<dictionary, dictionarySet, clusters, inits, session>>

\* the first loop: counts[char] = (counts[char] || 0) + 1
RECURSIVE CountChars(_)
CountChars(s) ==
  IF s = <<>> THEN <<>>
  ELSE LET counts == CountChars(SubSeq(s, 1, Len(s) - 1))
           char == s[Len(s)]
       IN  IF char \in DOMAIN counts
             THEN [counts EXCEPT ![char] = @ + 1]
             ELSE [c \in DOMAIN counts \cup {char} |->
                     IF c = char THEN 1 ELSE counts[c]]

\* the second loop: false at the first character with no count left
RECURSIVE Consume(_, _)
Consume(s, counts) ==
  IF s = <<>> THEN TRUE
  ELSE LET char == Head(s)
       IN  IF char \notin DOMAIN counts \/ counts[char] = 0
             THEN FALSE
             ELSE Consume(Tail(s), [counts EXCEPT ![char] = @ - 1])

\* set membership instead of multiset inclusion: no count is used up
isSubset_Membership(smallSorted, bigSorted) ==
  \A i \in DOMAIN smallSorted : smallSorted[i] \in Range(bigSorted)

\* a test that passes proper sub-multisets only, never the whole
isSubset_Proper(smallSorted, bigSorted) ==
  /\ Len(smallSorted) < Len(bigSorted)
  /\ Consume(smallSorted, CountChars(bigSorted))

isSubset(smallSorted, bigSorted) == Consume(smallSorted, CountChars(bigSorted))

(***************************************************************************)
(* generateLevel(targetLength).                                            *)
(***************************************************************************)
\* the lengths the game session asks for (6 at start, then 5 to 7)
TargetLengths == {5, 6, 7}

\* a.localeCompare(b) on lower-case words: -1, 0 or 1, letter by letter
RECURSIVE localeCompare(_, _)
localeCompare(a, b) ==
  IF a = <<>> THEN (IF b = <<>> THEN 0 ELSE -1)
  ELSE IF b = <<>> THEN 1
  ELSE IF CharCode[Head(a)] < CharCode[Head(b)] THEN -1
  ELSE IF CharCode[Head(a)] > CharCode[Head(b)] THEN 1
  ELSE localeCompare(Tail(a), Tail(b))

\* a comparator that looks at the length only
CompareWords_LengthOnly(a, b) == Len(a) - Len(b)

\* (a, b) => a.length - b.length || a.localeCompare(b)
CompareWords(a, b) ==
  IF Len(a) # Len(b) THEN Len(a) - Len(b) ELSE localeCompare(a, b)

\* Array.prototype.sort(compare): stable
RECURSIVE InsertWord(_, _)
InsertWord(w, sorted) ==
  IF sorted = <<>> THEN <<w>>
  ELSE IF CompareWords(Head(sorted), w) <= 0
    THEN <<Head(sorted)>> \o InsertWord(w, Tail(sorted))
    ELSE <<w>> \o sorted

RECURSIVE SortWords(_)
SortWords(ws) ==
  IF ws = <<>> THEN <<>>
  ELSE InsertWord(ws[Len(ws)], SortWords(SubSeq(ws, 1, Len(ws) - 1)))

WordsOfLength(dict, n) == SelectSeq(dict, LAMBDA w : Len(w) = n)

\* no retry: an absent length goes straight to the default root
rootWords_NoRetry(dict, targetLength) == WordsOfLength(dict, targetLength)

\* the retry steps down by one instead of going to 5
rootWords_StepDown(dict, targetLength) ==
  IF WordsOfLength(dict, targetLength) # <<>>
    THEN WordsOfLength(dict, targetLength)
    ELSE WordsOfLength(dict, targetLength - 1)

\* the candidates after the one retry with length 5
rootWords(dict, targetLength) ==
  IF WordsOfLength(dict, targetLength) # <<>>
    THEN WordsOfLength(dict, targetLength)
    ELSE WordsOfLength(dict, 5)

\* rootWords[Math.floor(Math.random() * rootWords.length)] || "water"
RootChoices(dict, targetLength) ==
  LET candidates == rootWords(dict, targetLength)
  IN  IF candidates = <<>> THEN {WATER}
      ELSE {IF candidates[i] = <<>> THEN WATER ELSE candidates[i] :
              i \in DOMAIN candidates}

\* the scan over clusters.entries(), in insertion order
RECURSIVE allValid(_, _)
allValid(cl, rootSorted) ==
  IF cl = <<>> THEN <<>>
  ELSE IF Len(cl) = 1
    THEN (IF isSubset(cl[1].sortedLetters, rootSorted) THEN cl[1].words ELSE <<>>)
  ELSE LET half == Len(cl) \div 2
       IN  allValid(SubSeq(cl, 1, half), rootSorted)
             \o allValid(SubSeq(cl, half + 1, Len(cl)), rootSorted)

RECURSIVE KeepAt(_, _, _)
KeepAt(xs, keep, i) ==
  IF i > Len(xs) THEN <<>>
  ELSE (IF i \in keep THEN <<xs[i]>> ELSE <<>>) \o KeepAt(xs, keep, i + 1)

\* The scores are independent random numbers, so the top maxWords by score
\* can be any maxWords entries of the pool; the sort that follows fixes
\* their order.
Selections(pool) ==
  IF Len(pool) <= maxWords THEN {pool}
  ELSE {KeepAt(pool, keep, 1) :
          keep \in {k \in SUBSET (1 .. Len(pool)) : Cardinality(k) = maxWords}}

Swap(s, i, j) == [s EXCEPT ![i] = s[j], ![j] = s[i]]

\* Fisher-Yates: for i from the last index down to the second, swap with any j <= i
RECURSIVE ShufflesFrom(_, _)
ShufflesFrom(s, i) ==
  IF i <= 1 THEN {s}
  ELSE UNION {ShufflesFrom(Swap(s, i, j), i - 1) : j \in 1 .. i}

Shuffles(letters) == ShufflesFrom(letters, Len(letters))

\* a Level that is handed out with every word already found
LevelData_AllFound(rootSorted, displayLetters, selectedWords) ==
  [rootLetters |-> rootSorted,
   displayLetters |-> displayLetters,
   validWords |-> selectedWords,
   foundWords |-> Range(selectedWords)]

\* the Level literal of the return statement
LevelData(rootSorted, displayLetters, selectedWords) ==
  [rootLetters |-> rootSorted,
   displayLetters |-> displayLetters,
   validWords |-> selectedWords,
   foundWords |-> {}]

\* a generateLevel whose sort reorders the cluster lists themselves
generateLevel_SortsClusters ==
  /\ result = NoCall
  /\ \E targetLength \in TargetLengths :
       \E randomRoot \in RootChoices(dictionary, targetLength) :
         \E rootSorted \in {Signature(randomRoot)} :
           \E pool \in {allValid(clusters, rootSorted)} :
             \E selectedWords \in {SortWords(s) : s \in Selections(pool)} :
               \E displayLetters \in Shuffles(toUpperCase(randomRoot)) :
                 result' =
                   [op |-> "generateLevel", arg |-> targetLength,
                    ret |-> [root |-> randomRoot, allValid |-> pool,
                             level |-> LevelData(rootSorted, displayLetters,
                                                 selectedWords)]]
  /\ clusters' = [i \in DOMAIN clusters |->
                    [clusters[i] EXCEPT !.words = SortWords(@)]]
  /\ UNCHANGED <<dictionary, dictionarySet, inits, session>>

\* The call returns a Level; the model also keeps the root and the pool
\* (allValid) the Level was made from.
generateLevel ==
  /\ result = NoCall
  /\ \E targetLength \in TargetLengths :
       \E randomRoot \in RootChoices(dictionary, targetLength) :
         \E rootSorted \in {Signature(randomRoot)} :
           \E pool \in {allValid(clusters, rootSorted)} :
             \E selectedWords \in {SortWords(s) : s \in Selections(pool)} :
               \E displayLetters \in Shuffles(toUpperCase(randomRoot)) :
                 result' =
                   [op |-> "generateLevel", arg |-> targetLength,
                    ret |-> [root |-> randomRoot, allValid |-> pool,
                             level |-> LevelData(rootSorted, displayLetters,
                                                 selectedWords)]]
  /\ UNCHANGED <<dictionary, dictionarySet, clusters, inits, session>>


(***************************************************************************)
(* The App component's state cells.                                        *)
(***************************************************************************)
GameState ==
  [LOADING |-> "LOADING", PLAYING |-> "PLAYING",
   LEVEL_COMPLETE |-> "LEVEL_COMPLETE"]

\* useState<LevelData | null>(null)
Null == [null |-> TRUE]

\* The useState initial values.  The display-only cells currentGuess and
\* message are left out; the message a handler sets is kept in its outcome.
AppStart ==
  [gameState |-> GameState.LOADING,
   level |-> Null,
   score |-> 0,
   levelNumber |-> 1,
   isSkipped |-> FALSE,
   revealedIndices |-> <<>>]

(***************************************************************************)
(* The engine: constructed empty, then any calls, one at a time.            *)
(***************************************************************************)
Init ==
  /\ dictionary = <<>>
  /\ dictionarySet = {}
  /\ clusters = <<>>
  /\ inits = 0
  /\ result = NoCall
  /\ app = AppStart
  /\ timers = 0
  /\ pc = "mounted"
  /\ loads = 0

\* the caller takes what the call returned; the engine is single-threaded,
\* so the next call starts only after that
Return ==
  /\ result # NoCall
  /\ result' = NoCall
  /\ UNCHANGED <<dictionary, dictionarySet, clusters, inits, session>>

Next == init \/ generateLevel \/ isValidWord \/ Return

Spec == Init /\ [][Next]_vars


(***************************************************************************)
(* isSubset on its own: the private method applied to pairs of sorted      *)
(* letter strings.                                                         *)
(***************************************************************************)
SubsetAlphabet == {"a", "s", "t"}

\* the words of the spec's example, and one that does need a second s
STRAIN == <<"s","t","r","a","i","n">>

StrainAccepted ==
  {<<"r","a","i","n">>, <<"r","a","n","t">>, <<"s","t","a","i","r">>,
   <<"t","r","a","i","n">>, <<"s","a","i","n","t">>}

TRAINS == <<"t","r","a","i","n","s">>

STRAINS == <<"s","t","r","a","i","n","s">>

SortedStrings ==
  {s \in UNION {[1 .. n -> SubsetAlphabet] : n \in 0 .. MaxSigLen} :
     s = SortChars(s)}
  \cup {Signature(w) : w \in StrainAccepted \cup {STRAIN, TRAINS, STRAINS}}

isSubsetCall ==
  /\ result = NoCall
  /\ \E smallSorted \in SortedStrings, bigSorted \in SortedStrings :
       result' = [op |-> "isSubset", arg |-> <<smallSorted, bigSorted>>,
                  ret |-> isSubset(smallSorted, bigSorted)]
  /\ UNCHANGED <<dictionary, dictionarySet, clusters, inits, session>>

SubsetNext == isSubsetCall \/ Return

SpecSubset == Init /\ [][SubsetNext]_vars

(***************************************************************************)
(* generateLevel on a constrained test dictionary: the engine's fields     *)
(* hold a short word list and its index, as a test harness sets them up.   *)
(* init() itself cannot produce such a dictionary: the fetch path always   *)
(* merges the 7-letter "wrought", the fallback list has no 6-letter word.  *)
(***************************************************************************)
TestWords ==
  <<<<"r","a","i","n">>, <<"n","o","t","e","s">>, STRAIN, STRAINS>>

TestDictionaries ==
  {KeepAt(TestWords, keep, 1) : keep \in SUBSET DOMAIN TestWords}

TestInit ==
  /\ dictionary \in TestDictionaries
  /\ dictionarySet = Range(dictionary)
  /\ clusters = IndexWords(<<>>, dictionary)
  /\ inits = 1
  /\ result = NoCall
  /\ app = AppStart
  /\ timers = 0
  /\ pc = "mounted"
  /\ loads = 0

TestNext == generateLevel \/ Return

SpecTestDict == TestInit /\ [][TestNext]_vars

(***************************************************************************)
(* The game session: the App component's handlers.  Each handler runs to   *)
(* completion on the state of the latest render.                           *)
(***************************************************************************)
\* the handler left the message alone
Untouched == "(untouched)"

\* what a handler reports: the message it set and the engine methods it called
Outcome(message, calls) == [message |-> message, calls |-> calls]

\* The session draws every Math.random() of the shuffle and of the hints
\* as 0: Math.floor(Math.random() * n) is the first of n.
Draws(n) == {1}

\* Fisher-Yates with those draws
RECURSIVE ShuffleDrawing(_, _)
ShuffleDrawing(s, i) ==
  IF i <= 1 THEN {s}
  ELSE UNION {ShuffleDrawing(Swap(s, i, j), i - 1) : j \in Draws(i)}

ShuffleDraws(letters) == ShuffleDrawing(letters, Len(letters))

\* loadNewLevel(length) on the App state a, with the engine holding dict, cl
loadNewLevel(a, dict, cl, length) ==
  /\ \E randomRoot \in RootChoices(dict, length) :
       \E rootSorted \in {Signature(randomRoot)} :
         \E pool \in {allValid(cl, rootSorted)} :
           \E selectedWords \in {SortWords(s) : s \in Selections(pool)} :
             \E displayLetters \in ShuffleDraws(toUpperCase(randomRoot)) :
               app' = [a EXCEPT
                         !.level = LevelData(rootSorted, displayLetters,
                                             selectedWords),
                         !.revealedIndices = <<>>,
                         !.gameState = GameState.PLAYING,
                         !.isSkipped = FALSE]
  /\ loads' = loads + 1

\* a useEffect that does not await init() before it loads the first level
useEffect_NoAwait ==
  /\ result = NoCall
  /\ pc = "mounted"
  /\ pc' = "awaiting"
  /\ loadNewLevel(app, dictionary, clusters, 6)
  /\ result' = [op |-> "useEffect", arg |-> 0,
                ret |-> Outcome("", <<"generateLevel">>)]
  /\ UNCHANGED <<dictionary, dictionarySet, clusters, inits, timers>>

\* the effect after the first render: initGame() runs up to its await,
\* with wordEngine.init() suspended in fetch
useEffect ==
  /\ result = NoCall
  /\ pc = "mounted"
  /\ pc' = "awaiting"
  /\ result' = [op |-> "useEffect", arg |-> 0, ret |-> Outcome(Untouched, <<>>)]
  /\ UNCHANGED <<dictionary, dictionarySet, clusters, inits, app, timers, loads>>

\* the fetch settles: init() finishes by either path, initGame() resumes
\* and loads the first level
initGame ==
  /\ result = NoCall
  /\ pc = "awaiting"
  /\ inits < MaxInits
  /\ \E response \in Responses :
       \E run \in {InitRun(response, clusters)} :
         /\ dictionary' = run.dictionary
         /\ dictionarySet' = run.dictionarySet
         /\ clusters' = run.clusters
         /\ loadNewLevel(app, run.dictionary, run.clusters, 6)
         /\ result' = [op |-> "initGame", arg |-> response.status,
                       ret |-> Outcome("", <<"init", "generateLevel">>)]
  /\ inits' = inits + 1
  /\ pc' = "done"
  /\ UNCHANGED timers

\* the second loop of isPossibleWithLetters: false at a character with no count
isPossibleWithLetters(word, rootLetters) == Consume(word, CountChars(rootLetters))

\* guesses that are not words of the puzzle: too short, and not a word
OtherGuesses == {<<"r","a","n">>, <<"x","y","z","z","y">>}

Guesses ==
  OtherGuesses \cup (IF app.level = Null THEN {} ELSE Range(app.level.validWords))

\* the message of the branch for a word that is not in the puzzle
RejectionMessage(isEnglishWord, possibleWithLetters) ==
  IF isEnglishWord /\ possibleWithLetters THEN "Valid, but not in this puzzle!"
  ELSE IF isEnglishWord THEN "Wrong letters!"
  ELSE "Not a word!"

\* size of new Set(...) after add(word)
handleWordComplete ==
  /\ result = NoCall
  /\ \E word \in Guesses :
       IF app.level = Null
         THEN /\ result' = [op |-> "handleWordComplete", arg |-> word,
                            ret |-> Outcome(Untouched, <<>>)]
              /\ UNCHANGED app
       ELSE IF Len(word) < 4
         THEN /\ result' = [op |-> "handleWordComplete", arg |-> word,
                            ret |-> Outcome(IF Len(word) > 0 THEN "Too short!"
                                            ELSE Untouched, <<>>)]
              /\ UNCHANGED app
       ELSE IF word \in app.level.foundWords
         THEN /\ result' = [op |-> "handleWordComplete", arg |-> word,
                            ret |-> Outcome("Already found!", <<>>)]
              /\ UNCHANGED app
       ELSE IF word \in Range(app.level.validWords)
         THEN /\ app.score + Len(word) * 10 <= MaxScore
              /\ LET updatedFound == app.level.foundWords \cup {word}
                 IN  /\ app' = [app EXCEPT
                                  !.level.foundWords = updatedFound,
                                  !.score = @ + Len(word) * 10,
                                  !.gameState =
                                    IF Cardinality(updatedFound)
                                         = Len(app.level.validWords)
                                      THEN GameState.LEVEL_COMPLETE
                                      ELSE @]
                     /\ result' = [op |-> "handleWordComplete", arg |-> word,
                                   ret |-> Outcome("Great!", <<>>)]
       ELSE /\ result' =
                 [op |-> "handleWordComplete", arg |-> word,
                  ret |-> Outcome(
                    RejectionMessage(toLowerCase(word) \in dictionarySet,
                                     isPossibleWithLetters(word, app.level.rootLetters)),
                    <<"isValidWord">>)]
            /\ UNCHANGED app
  /\ UNCHANGED <<dictionary, dictionarySet, clusters, inits, timers, pc, loads>>

\* revealedIndices[word] || []
Revealed(word) ==
  IF word \in DOMAIN app.revealedIndices THEN app.revealedIndices[word] ELSE <<>>

\* letters revealed so far on this level
HintsGiven ==
  LET words == DOMAIN app.revealedIndices
  IN  Cardinality(UNION {{<<w, k>> : k \in DOMAIN app.revealedIndices[w]} :
                           w \in words})

\* the Hint button: one more letter of a random unfound word, for 20 points
handleHelp ==
  /\ result = NoCall
  /\ app.level # Null /\ app.gameState = GameState.PLAYING
  /\ HintsGiven < MaxHints
  /\ LET unfoundWords ==
           SelectSeq(app.level.validWords,
                     LAMBDA w : w \notin app.level.foundWords)
         availableWords ==
           SelectSeq(unfoundWords, LAMBDA w : Len(Revealed(w)) < Len(w))
     IN  /\ availableWords # <<>>
         /\ \E t \in Draws(Len(availableWords)) :
              LET targetWord == availableWords[t]
                  revealed == Revealed(targetWord)
                  hiddenIndices ==
                    SelectSeq([i \in 1 .. Len(targetWord) |-> i - 1],
                              LAMBDA i : i \notin Range(revealed))
              IN  /\ hiddenIndices # <<>>
                  /\ \E h \in Draws(Len(hiddenIndices)) :
                       LET newIndex == hiddenIndices[h]
                           words == DOMAIN app.revealedIndices \cup {targetWord}
                       IN  /\ app' =
                                [app EXCEPT
                                   !.revealedIndices =
                                     [w \in words |->
                                        IF w = targetWord
                                          THEN Append(revealed, newIndex)
                                          ELSE app.revealedIndices[w]],
                                   !.score = IF @ - 20 > 0 THEN @ - 20 ELSE 0]
                           /\ result' = [op |-> "handleHelp", arg |-> targetWord,
                                         ret |-> Outcome(Untouched, <<>>)]
  /\ UNCHANGED <<dictionary, dictionarySet, clusters, inits, timers, pc, loads>>

\* the Give-up button: reveal every word now, complete the level in 1500 ms
handleGiveUp ==
  /\ result = NoCall
  /\ app.level # Null /\ app.gameState = GameState.PLAYING
  /\ timers < MaxTimers
  /\ app' = [app EXCEPT !.isSkipped = TRUE,
                        !.level.foundWords = Range(app.level.validWords)]
  /\ timers' = timers + 1
  /\ result' = [op |-> "handleGiveUp", arg |-> 0,
                ret |-> Outcome("Words revealed!", <<>>)]
  /\ UNCHANGED <<dictionary, dictionarySet, clusters, inits, pc, loads>>

\* a give-up timeout fires: () => setGameState(GameState.LEVEL_COMPLETE)
giveUpTimeout ==
  /\ result = NoCall
  /\ timers > 0
  /\ timers' = timers - 1
  /\ app' = [app EXCEPT !.gameState = GameState.LEVEL_COMPLETE]
  /\ result' = [op |-> "giveUpTimeout", arg |-> 0, ret |-> Outcome(Untouched, <<>>)]
  /\ UNCHANGED <<dictionary, dictionarySet, clusters, inits, pc, loads>>

\* level?.rootLetters.length || 5
RootLength == 
  IF app.level = Null \/ Len(app.level.rootLetters) = 0 THEN 5
  ELSE Len(app.level.rootLetters)

Min(a, b) == IF a < b THEN a ELSE b

Max(a, b) == IF a > b THEN a ELSE b

\* the Continue button of the level-complete dialog
nextLevel ==
  /\ result = NoCall
  /\ app.gameState = GameState.LEVEL_COMPLETE
  /\ loads < MaxLoads
  /\ \E bump \in {0, 1} :
       LET nextLen == Min(7, Max(5, RootLength + bump))
           counted == IF ~app.isSkipped
                        THEN [app EXCEPT !.levelNumber = @ + 1]
                        ELSE app
       IN  /\ loadNewLevel(counted, dictionary, clusters, nextLen)
           /\ result' = [op |-> "nextLevel", arg |-> nextLen,
                         ret |-> Outcome("", <<"generateLevel">>)]
  /\ UNCHANGED <<dictionary, dictionarySet, clusters, inits, timers, pc>>

SessionNext ==
  \/ useEffect \/ initGame
  \/ handleWordComplete \/ handleHelp \/ handleGiveUp \/ giveUpTimeout
  \/ nextLevel
  \/ Return

SpecSession == Init /\ [][SessionNext]_vars

(***************************************************************************)
(* One level played on an engine that has been initialised before: the     *)
(* exported wordEngine is one object for every caller, and an init() call  *)
(* of another caller may have completed before the App's own.              *)
(***************************************************************************)
EarlierInit ==
  /\ pc = "mounted"
  /\ inits + 1 < MaxInits
  /\ init

PlayNext ==
  \/ EarlierInit
  \/ useEffect \/ initGame
  \/ handleWordComplete
  \/ Return

SpecPlay == Init /\ [][PlayNext]_vars

(***************************************************************************)
(* What the properties speak about, stated without the engine's own code.  *)
(***************************************************************************)
CountOf(c, s) == Cardinality({i \in DOMAIN s : s[i] = c})

\* multiset inclusion of the characters of small in those of big
MultisetIncluded(small, big) ==
  \A c \in Range(small) : CountOf(c, small) <= CountOf(c, big)

SameMultiset(s, t) == MultisetIncluded(s, t) /\ MultisetIncluded(t, s)

NoDuplicates(s) == \A i, j \in DOMAIN s : s[i] = s[j] => i = j

Initialized == inits >= 1

Returned(op) == result.op = op

\* the Level a generateLevel call has just returned
level == result.ret.level

\* every (cluster, position) of the index
AllPlaces ==
  UNION {{<<i, k>> : k \in DOMAIN clusters[i].words} : i \in DOMAIN clusters}

\* the places that hold word w
Places(w) == {p \in AllPlaces : clusters[p[1]].words[p[2]] = w}

Admissible(w) ==
  /\ Len(w) >= 4 /\ Len(w) <= 7
  /\ \A i \in DOMAIN w : w[i] \in LowerSet
  /\ \E i \in DOMAIN w : w[i] \in {"a","e","i","o","u","y"}
  /\ w \notin BLACKLIST

\* the candidate pool of a root: the cluster entries, and the words,
\* of all clusters whose signature is a multiset subset of the root signature
PoolPlaces(rootSorted) ==
  {p \in AllPlaces : MultisetIncluded(clusters[p[1]].sortedLetters, rootSorted)}

PoolWords(rootSorted) ==
  {clusters[p[1]].words[p[2]] : p \in PoolPlaces(rootSorted)}

\* the dictionary words that can be spelled from the root letters
Spellable(rootSorted) ==
  {w \in Range(dictionary) : MultisetIncluded(w, rootSorted)}

HasLength(n) == \E w \in Range(dictionary) : Len(w) = n

(***************************************************************************)
(* The properties.                                                         *)
(***************************************************************************)
\* C1: after any completed init(), first or later, the cluster index
\* partitions the dictionary: every dictionary word is held exactly once,
\* in the list keyed by its own signature, and no list holds a word that is
\* not in the dictionary or holds a word twice.
C1_ClustersPartitionDictionary ==
  Initialized =>
    /\ \A w \in Range(dictionary) :
         /\ Cardinality(Places(w)) = 1
         /\ \A p \in Places(w) : clusters[p[1]].sortedLetters = Signature(w)
    /\ \A i \in DOMAIN clusters :
         /\ \A k \in DOMAIN clusters[i].words :
              clusters[i].words[k] \in Range(dictionary)
         /\ NoDuplicates(clusters[i].words)

\* C2: after init() by either path every dictionary word has 4 to 7
\* characters, all of them letters a-z, at least one of a e i o u y, and is
\* not blacklisted; the supplement and fallback words included.
C2_DictionaryWordsAdmissible ==
  Initialized => \A w \in Range(dictionary) : Admissible(w)

\* init() has just loaded the messy text: the padded, upper-case lines are in,
\* the blacklisted and malformed ones are out
C2_Witness ==
  /\ Returned("init") /\ result.ret.path = "fetch"
  /\ <<"r","a","i","n">> \in Range(dictionary)
  /\ <<"s","t","o","n","e">> \in Range(dictionary)
  /\ <<"r","h","y","t","h","m">> \in Range(dictionary)
  /\ Len(dictionary) = Len(PRIORITY_WORDS) + 3

\* C3: after init() every word of the curated supplement list is in the
\* dictionary, on the fetch path and on the fallback path.
C3_SupplementAlwaysPresent ==
  Initialized => Range(PRIORITY_WORDS) \subseteq Range(dictionary)

\* C4: whatever the dictionary source does, init() returns without
\* throwing and leaves a non-empty dictionary, and a generateLevel(6)
\* after it returns a Level with at least one valid word.
C4_InitNeverFailsAndLevelPlayable ==
  /\ Returned("init") => ~result.ret.threw
  /\ Initialized => dictionary # <<>>
  /\ (Initialized /\ Returned("generateLevel") /\ result.arg = 6)
       => level.validWords # <<>>

\* the source failed once, and generateLevel(6) has returned valid words
C4_Witness ==
  /\ inits = 1 /\ dictionary = fallback
  /\ Returned("generateLevel") /\ result.arg = 6
  /\ level.validWords # <<>>

\* C5: when the candidate pool of the chosen root has more than 12 words,
\* generateLevel returns exactly 12 valid words, all from the pool, no word
\* twice.
C5_CapEnforced ==
  (Initialized /\ Returned("generateLevel")
     /\ Cardinality(PoolPlaces(level.rootLetters)) > 12)
    => /\ Len(level.validWords) = 12
       /\ Range(level.validWords) \subseteq PoolWords(level.rootLetters)
       /\ NoDuplicates(level.validWords)

\* C6: every valid word of a returned Level is a dictionary word spellable
\* from the root letters; and when at most 12 dictionary words are
\* spellable, each of them is a valid word exactly once.
C6_ValidWordsAreTheSpellableWords ==
  Returned("generateLevel") =>
    /\ \A k \in DOMAIN level.validWords :
         /\ level.validWords[k] \in Range(dictionary)
         /\ MultisetIncluded(level.validWords[k], level.rootLetters)
    /\ Cardinality(Spellable(level.rootLetters)) <= 12 =>
         \A w \in Spellable(level.rootLetters) :
           CountOf(w, level.validWords) = 1

\* isSubset answers multiset inclusion
SubsetIsInclusion ==
  Returned("isSubset") =>
    (result.ret <=> MultisetIncluded(result.arg[1], result.arg[2]))

\* the answer isSubset gave for a word against the root "strain"
AnsweredForStrain(w, answer) ==
  (Returned("isSubset") /\ result.arg = <<Signature(w), Signature(STRAIN)>>)
    => result.ret = answer

\* C7 as stated: isSubset is multiset inclusion, and for root "strain" it
\* accepts rain, rant, stair, train, saint and rejects "trains".
C7_AsStated ==
  /\ SubsetIsInclusion
  /\ \A w \in StrainAccepted : AnsweredForStrain(w, TRUE)
  /\ AnsweredForStrain(TRAINS, FALSE)

\* C7 amended: isSubset is multiset inclusion; for root "strain" it accepts
\* rain, rant, stair, train, saint and also "trains", an anagram of the
\* root; it rejects "strains", the word that needs a second s.
C7_IsSubsetIsMultisetInclusion ==
  /\ SubsetIsInclusion
  /\ \A w \in StrainAccepted \cup {TRAINS} : AnsweredForStrain(w, TRUE)
  /\ AnsweredForStrain(STRAINS, FALSE)

\* isSubset has answered for "trains" against "strain", and accepted it
C7_Witness ==
  /\ Returned("isSubset")
  /\ result.arg = <<Signature(TRAINS), Signature(STRAIN)>>
  /\ result.ret

\* C8: displayLetters of every returned Level is a permutation of the
\* characters of rootLetters (same multiset), as long as the root word.
C8_DisplayIsPermutationOfRootLetters ==
  Returned("generateLevel") =>
    /\ SameMultiset(level.displayLetters, level.rootLetters)
    /\ Len(level.displayLetters) = Len(result.ret.root)

\* the dictionary has a 6-letter word and no 7-letter word, and
\* generateLevel(7) has returned
DegenerateSeven ==
  /\ Returned("generateLevel") /\ result.arg = 7
  /\ ~HasLength(7) /\ HasLength(6)

C10_RootSelectionChain ==
  Returned("generateLevel") =>
    /\ DOMAIN level =
         {"rootLetters", "displayLetters", "validWords", "foundWords"}
    /\ level.rootLetters = Signature(result.ret.root)
    /\ IF HasLength(result.arg)
         THEN result.ret.root \in Range(dictionary)
              /\ Len(result.ret.root) = result.arg
         ELSE IF HasLength(5)
           THEN result.ret.root \in Range(dictionary)
                /\ Len(result.ret.root) = 5
           ELSE result.ret.root = WATER

\* the fallback dictionary has no 6-letter word: generateLevel(6) has taken
\* a 5-letter root from it
C10_Witness ==
  /\ Returned("generateLevel") /\ result.arg = 6
  /\ dictionary # <<>> /\ ~HasLength(6)
  /\ Len(result.ret.root) = 5 /\ result.ret.root \in Range(dictionary)

\* C11: once init() has completed, a generateLevel call (any target length,
\* any random choices) and an isValidWord call leave the dictionary sequence,
\* the membership set and the cluster index as they were, the order of the
\* words inside each cluster list included.
C11_QueriesLeaveEngineUnchanged ==
  [][(Initialized /\ result'.op \in {"generateLevel", "isValidWord"})
       => /\ dictionary' = dictionary
          /\ dictionarySet' = dictionarySet
          /\ clusters' = clusters]_vars

\* a level has just been cut down to the cap and sorted, while a cluster
\* list of the index is in dictionary order, not in sorted order
C11_Witness ==
  /\ Initialized /\ Returned("generateLevel")
  /\ Len(result.ret.allValid) > maxWords
  /\ level.validWords = SortWords(level.validWords)
  /\ \E i \in DOMAIN clusters : clusters[i].words # SortWords(clusters[i].words)

\* the letters of w, each folded to lower case, stated without the engine's code
Folded(w) ==
  [i \in DOMAIN w |->
     IF \E k \in DOMAIN UPPER : UPPER[k] = w[i]
       THEN LOWER[CHOOSE k \in DOMAIN UPPER : UPPER[k] = w[i]]
       ELSE w[i]]

\* C13: after init() by either path the membership set and the dictionary
\* sequence hold the same words, and isValidWord(w) answers true exactly
\* when the lower-cased w is an element of the sequence, whatever the
\* casing of w.
C13_IsValidWordIsDictionaryMembership ==
  Initialized =>
    /\ dictionarySet = {dictionary[i] : i \in DOMAIN dictionary}
    /\ Returned("isValidWord") =>
         (result.ret <=> \E i \in DOMAIN dictionary : dictionary[i] = Folded(result.arg))

\* a mixed-case spelling of a dictionary word has just been accepted
C13_Witness ==
  /\ Initialized /\ Returned("isValidWord")
  /\ result.arg = <<"R","a","I","n">>
  /\ result.ret = TRUE
  /\ \E i \in DOMAIN dictionary : dictionary[i] = <<"r","a","i","n">>

\* a comes before b in the dictionary order of lower-case words
LexBefore(a, b) ==
  \/ Len(a) < Len(b) /\ \A k \in DOMAIN a : a[k] = b[k]
  \/ \E k \in DOMAIN a \cap DOMAIN b :
       /\ \A j \in 1 .. k - 1 : a[j] = b[j]
       /\ CharCode[a[k]] < CharCode[b[k]]

\* the order of the contract: shorter first, equal lengths lexicographically
InContractOrder(a, b) ==
  \/ Len(a) < Len(b)
  \/ Len(a) = Len(b) /\ (a = b \/ LexBefore(a, b))

\* C14: the validWords of every returned Level, trimmed to the cap or not,
\* ascend by word length and, among words of one length, lexicographically.
C14_ValidWordsOrdered ==
  Returned("generateLevel") =>
    \A i, j \in DOMAIN level.validWords :
      i < j => InContractOrder(level.validWords[i], level.validWords[j])

\* a trimmed level whose pool was not in that order, with several lengths
\* and several words of one length
C14_Witness ==
  /\ Returned("generateLevel")
  /\ Len(result.ret.allValid) > maxWords
  /\ \E i, j \in DOMAIN result.ret.allValid :
       i < j /\ ~InContractOrder(result.ret.allValid[i], result.ret.allValid[j])
  /\ \E i, j \in DOMAIN level.validWords :
       Len(level.validWords[i]) < Len(level.validWords[j])
  /\ \E i, j \in DOMAIN level.validWords :
       i # j /\ Len(level.validWords[i]) = Len(level.validWords[j])

\* the pool of the call holds the root it was scanned for
PoolHoldsRoot ==
  \E k \in DOMAIN result.ret.allValid : result.ret.allValid[k] = result.ret.root

\* C18 as stated: whichever root a generateLevel call chooses, the default
\* root included, the candidate pool holds the root word.
C18_AsStated == Returned("generateLevel") => PoolHoldsRoot

\* C18: a generateLevel call made after init() has completed chooses a
\* dictionary word (of the target length or of length 5), never the default
\* root, and its pool holds that word; a call made before any init() chooses
\* the default root and scans an empty index, so its pool is empty.
C18_PoolHoldsDictionaryRoot ==
  Returned("generateLevel") =>
    IF Initialized
      THEN /\ \E i \in DOMAIN dictionary : dictionary[i] = result.ret.root
           /\ Len(result.ret.root) \in {result.arg, 5}
           /\ PoolHoldsRoot
      ELSE /\ result.ret.root = WATER
           /\ result.ret.allValid = <<>>

\* after a fallback init() a call for length 6 has retried with length 5,
\* and the pool holds the root next to other words
C18_Witness ==
  /\ Initialized /\ Returned("generateLevel")
  /\ result.arg = 6 /\ Len(result.ret.root) = 5
  /\ PoolHoldsRoot
  /\ Len(result.ret.allValid) > 1

(***************************************************************************)
(* The session's properties.                                               *)
(***************************************************************************)
SessionOps ==
  {"useEffect", "initGame", "handleWordComplete", "handleHelp",
   "handleGiveUp", "giveUpTimeout", "nextLevel"}

\* the engine methods the handler that has just run called
CallsMade == IF result.op \in SessionOps THEN Range(result.ret.calls) ELSE {}

\* C12: in the game session no generateLevel or isValidWord call is made
\* before the one init() call has completed: until then the session is
\* LOADING and has no level, and a guess made while there is no level is
\* ignored.
C12_NoQueryBeforeInitCompletes ==
  /\ pc # "done" =>
       /\ inits = 0 /\ loads = 0
       /\ app.gameState = GameState.LOADING
       /\ app.level = Null
       /\ CallsMade = {}
  /\ CallsMade \cap {"generateLevel", "isValidWord"} # {} => inits = 1
  /\ (Returned("handleWordComplete") /\ app.level = Null) =>
       /\ result.ret = Outcome(Untouched, <<>>)
       /\ app = AppStart
  /\ inits <= 1

\* init() is in flight and a guess of five letters has just been ignored
C12_Witness ==
  /\ pc = "awaiting" /\ inits = 0
  /\ Returned("handleWordComplete")
  /\ Len(result.arg) >= 4
  /\ app.level = Null /\ app.gameState = GameState.LOADING

\* C15 as stated: whenever the game state is LEVEL_COMPLETE, the current
\* level's foundWords is the set of its validWords.
C15_AsStated ==
  app.gameState = GameState.LEVEL_COMPLETE =>
    app.level.foundWords = Range(app.level.validWords)

\* the step is an accepted guess: handleWordComplete put a word into foundWords
AcceptedGuess ==
  /\ result'.op = "handleWordComplete"
  /\ app.level # Null
  /\ app'.level.foundWords # app.level.foundWords

\* C16 as stated: for every Level the engine can return, in any engine state
\* reached by completed init() calls, the accepted guess after which every
\* word of validWords is found, made while PLAYING, takes the session to
\* LEVEL_COMPLETE.
C16_AsStated ==
  [][(AcceptedGuess /\ app.gameState = GameState.PLAYING
        /\ app'.level.foundWords = Range(app.level.validWords))
       => app'.gameState = GameState.LEVEL_COMPLETE]_vars

\* the step starts a level: initGame or nextLevel has called loadNewLevel
LoadsLevel == loads' = loads + 1

\* the guess is one the session rejects: too short, found before, or not a
\* word of the puzzle
Rejected(word) ==
  \/ Len(word) < 4
  \/ word \in app.level.foundWords
  \/ \A k \in DOMAIN app.level.validWords : app.level.validWords[k] # word

\* C17: a level starts with foundWords empty; within the level foundWords is
\* a subset of its validWords and never loses a word; an accepted guess adds
\* exactly the guessed word, give-up adds all the remaining words, and a
\* rejected guess (too short, already found, not in the puzzle) changes
\* neither foundWords nor the score.
C17_FoundWordsGrowWithinValidWords ==
  [][/\ LoadsLevel => app'.level.foundWords = {}
     /\ app'.level # Null =>
          app'.level.foundWords \subseteq Range(app'.level.validWords)
     /\ (~LoadsLevel /\ app.level # Null) =>
          /\ app'.level.validWords = app.level.validWords
          /\ app.level.foundWords \subseteq app'.level.foundWords
          /\ result'.op = "handleWordComplete" =>
               IF Rejected(result'.arg)
                 THEN /\ app'.level.foundWords = app.level.foundWords
                      /\ app'.score = app.score
                 ELSE /\ app'.level.foundWords
                           = app.level.foundWords \cup {result'.arg}
                      /\ app'.score = app.score + 10 * Len(result'.arg)
          /\ result'.op = "handleGiveUp" =>
               app'.level.foundWords = Range(app.level.validWords)
          /\ result'.op \notin {"handleWordComplete", "handleGiveUp"} =>
               app'.level.foundWords = app.level.foundWords]_vars

\* on a later level with a word found and points scored, a guess of that
\* same word has just been rejected
C17_Witness ==
  /\ Returned("handleWordComplete")
  /\ result.ret.message = "Already found!"
  /\ loads >= 2
  /\ app.level.foundWords = {result.arg}
  /\ Len(app.level.validWords) >= 2
  /\ app.score >= 40

\* C19 as stated: a Continue click raises the level number by one after a
\* level completed by finding every word, leaves it alone after a level
\* ended by give-up, and never raises it for a level on which the player
\* found no word.
C19_AsStated ==
  [][result'.op = "nextLevel" =>
       /\ app.isSkipped => app'.levelNumber = app.levelNumber
       /\ (~app.isSkipped
             /\ app.level.foundWords = Range(app.level.validWords)) =>
            app'.levelNumber = app.levelNumber + 1
       /\ app.level.foundWords = {} =>
            app'.levelNumber = app.levelNumber]_vars
=============================================================================
